---- MODULE Spec2Model ----
(***************************************************************************)
(* A model of the report builder of groupme-query (querier.py): main       *)
(* consumes a list of messages ordered by send time and writes a tree of   *)
(* HTML pages (cover page, year and month directories, one page per day),  *)
(* stamping the navigation tabs of a ten-day month segment when the        *)
(* segment is closed.                                                      *)
(***************************************************************************)
EXTENDS Integers, Sequences, FiniteSets, TLC

(***************************************************************************)
(* Bounds of the model.                                                    *)
(***************************************************************************)
\* The longest message list main is run on.
MaxLen == 3

\* The send dates and chats the messages are drawn from.
Years == {2023, 2024}
Months == {1, 2}
Days == {5, 7, 15, 25}
Chats == {"Family", "Alice"}

(***************************************************************************)
(* Messages, as returned by get_messages: the fields main reads.  The      *)
(* 'MM/dd/yyyy hh:mm:ss' time string is held as its month, day and year    *)
(* components, which is what main extracts with split at every use; the    *)
(* position in the list stands for the time of day.                        *)
(***************************************************************************)
IsGroupChat(chat) == chat = "Family"

\* The chat_name argument of a run that searches one chat.
ChatName == "Alice"

MessageValues ==
    [month : Months, day : Days, year : Years, chat : Chats]

DateKey(m) == (m.year * 12 + m.month) * 32 + m.day

\* get_messages returns the messages in ascending order of send time: a
\* message may follow a list when it was sent no earlier than the last one.
MayFollow(list, m) ==
    IF Len(list) = 0 THEN TRUE ELSE DateKey(list[Len(list)]) <= DateKey(m)

\* The avatar the chat-detail collaborator reports for a chat ("" is None).
ImageUrl(chat) == IF chat = "Family" THEN "family.png" ELSE ""

(***************************************************************************)
(* Module-level data and pure helpers of querier.py.                       *)
(***************************************************************************)
MONTH_NAMES ==
    <<"January", "February", "March", "April", "May", "June", "July",
      "August", "September", "October", "November", "December">>

\* str(n).zfill(2) for the day and month numbers main formats.
zfill(n) == IF n < 10 THEN "0" \o ToString(n) ELSE ToString(n)

\* A slip: the 10th falls into the second segment.
calculate_month_segment_before_10(day) ==
    IF day < 10 THEN 1 ELSE IF day < 21 THEN 2 ELSE 3

calculate_month_segment(day) ==
    IF day < 11 THEN 1 ELSE IF day < 21 THEN 2 ELSE 3

\* Dates formatted MM/dd/yyyy are held as <<month, day, year>>.
month_segment_start(month, day, year) ==
    IF day < 11 THEN <<month, 1, year>>
    ELSE IF day < 21 THEN <<month, 11, year>>
    ELSE <<month, 21, year>>

\* A slip: every fourth year is a leap year.
month_segment_end_julian(month, day, year) ==
    IF day < 11 THEN <<month, 10, year>>
    ELSE IF day < 21 THEN <<month, 20, year>>
    ELSE IF month \in {4, 6, 9, 11} THEN <<month, 30, year>>
    ELSE IF month # 2 THEN <<month, 31, year>>
    ELSE IF year % 4 = 0 THEN <<month, 29, year>>
    ELSE <<month, 28, year>>

month_segment_end(month, day, year) ==
    IF day < 11 THEN <<month, 10, year>>
    ELSE IF day < 21 THEN <<month, 20, year>>
    ELSE IF month \in {4, 6, 9, 11} THEN <<month, 30, year>>
    ELSE IF month # 2 THEN <<month, 31, year>>
    ELSE IF year % 4 = 0 /\ (year % 100 # 0 \/ year % 400 = 0)
         THEN <<month, 29, year>>
    ELSE <<month, 28, year>>

\* A slip: the last digit alone decides.
day_suffix_of_last_digit(day) ==
    IF day % 10 = 1 THEN "st"
    ELSE IF day % 10 = 2 THEN "nd"
    ELSE IF day % 10 = 3 THEN "rd"
    ELSE "th"

\* str(day).endswith('1') etc. for day numbers of at most two digits.
day_suffix(day) ==
    IF day % 10 = 1 /\ day % 100 # 11 THEN "st"
    ELSE IF day % 10 = 2 /\ day % 100 # 12 THEN "nd"
    ELSE IF day % 10 = 3 /\ day % 100 # 13 THEN "rd"
    ELSE "th"

\* The f-strings main builds for directories, files and labels.
YearDir(year) == ToString(year)

MonthDir(year, month) ==
    ToString(year) \o "/" \o zfill(month) \o "-" \o MONTH_NAMES[month]

DayFile(month, day) == ToString(month) \o "-" \o zfill(day) \o ".html"

\* A slip: the month in the path of a page is not filled to two digits.
DayPagePath_unfilled(year, month, day) ==
    ToString(year) \o "/" \o ToString(month) \o "-" \o MONTH_NAMES[month]
        \o "/" \o DayFile(month, day)

DayPagePath(year, month, day) ==
    MonthDir(year, month) \o "/" \o DayFile(month, day)

DayLabel(month, day) ==
    MONTH_NAMES[month] \o " " \o ToString(day) \o day_suffix(day)

(***************************************************************************)
(* The state of one run of main.                                           *)
(***************************************************************************)
VARIABLES
    messages,            \* the list returned by get_messages
    pc,                  \* "fetch", "start", "loop" or "done"; at an input(),
                         \* "setup_prompt" or "loop_prompt"; "aborted" after
                         \* an exception nothing catches; "calendar" and
                         \* "get_chats" when a function is called on its own
    index,               \* position of the for loop in messages
    ret,                 \* the value main returned (-1 before it returns)
    curr_year, curr_month, curr_day, curr_month_segment, curr_chat,
    day_page,            \* the open day page (Document)
    chat_div,            \* the open chat block (its header is attached)
    message_container,   \* the message nodes of the open chat block
    segment_pages,       \* the (day, page) pairs of the open month segment
    month_segment_list,  \* cover page: the open list of segment start dates
    month_list,          \* cover page: the open list of months
    year_list,           \* cover page: the list of years
    group_avatars,       \* the avatar cache of create_chat_header
    created,             \* how many pages, chat blocks and lists were made
    events,              \* what the run did so far, in order
    dirs,                \* the directories that exist below the output one
    call,                \* the function called on its own, and its arguments
    result               \* what that call has come to so far

vars ==
    <<messages, pc, index, ret, curr_year, curr_month, curr_day,
      curr_month_segment, curr_chat, day_page, chat_div, message_container,
      segment_pages, month_segment_list, month_list, year_list,
      group_avatars, created, events, dirs, call, result>>

builder ==
    <<curr_year, curr_month, curr_day, curr_month_segment, curr_chat,
      day_page, chat_div, message_container, segment_pages,
      month_segment_list, month_list, year_list, group_avatars, created>>

\* HTML nodes of the cover page: a node has a tag, a class, a text, a link
\* target and children; id tells apart the list objects main creates (it is
\* 0 for the other nodes).
Node(tag, class, id, text, href) ==
    [tag |-> tag, class |-> class, id |-> id, text |-> text, href |-> href,
     children |-> <<>>]

append_child(node, child) ==
    [node EXCEPT !.children = Append(@, child)]

Li(text) == Node("li", "", 0, text, "")

YearList(id) == Node("ul", "year-list", id, "", "")

MonthList(id) == Node("ul", "month-list", id, "", "")

StartDateList(id) == Node("ul", "start-date-list", id, "", "")

Link(href, child) == append_child(Node("a", "", 0, "", href), child)

NoNode == Node("none", "", 0, "", "")

NoPage ==
    [id |-> 0, date |-> <<0, 0, 0>>, start |-> <<0, 0, 0>>,
     end |-> <<0, 0, 0>>, tabs |-> <<>>, container |-> <<>>]

NoChat == [id |-> 0, header |-> [chat |-> "", avatar |-> "", dm |-> FALSE],
           messages |-> <<>>]

NoAvatars == [c \in {} |-> ""]

\* What main does that is visible outside it, or that the claims count: a
\* directory made, a stylesheet written, a page exported, a chat looked up,
\* a message rendered, a line printed.
Event(op, path, page, node, idx) ==
    [op |-> op, path |-> path, page |-> page, node |-> node, index |-> idx]

Mkdir(path) == Event("mkdir", path, NoPage, NoNode, 0)

WriteStyle(path) == Event("style", path, NoPage, NoNode, 0)

Export(path, page) == Event("export", path, page, NoNode, 0)

ExportCover(node) == Event("cover", "cover.html", NoPage, node, 0)

GetChat(chat) == Event("get_chat", chat, NoPage, NoNode, 0)

Rendered(idx) == Event("message", "", NoPage, NoNode, idx)

Printed(text) == Event("print", text, NoPage, NoNode, 0)

\* os.mkdir raised FileExistsError for this path.
MkdirFailed(path) == Event("exists", path, NoPage, NoNode, 0)

\* input(): the user is told that path exists and asked to delete it and
\* to press ENTER.
Asked(path) == Event("input", path, NoPage, NoNode, 0)

\* No function is called on its own while main runs.
NoCall == [fn |-> "main"]

NoResult == [state |-> "none"]

Init ==
    /\ messages = <<>>
    /\ pc = "fetch"
    /\ index = 0
    /\ ret = -1
    /\ curr_year = 0
    /\ curr_month = 0
    /\ curr_day = 0
    /\ curr_month_segment = 0
    /\ curr_chat = ""
    /\ day_page = NoPage
    /\ chat_div = NoChat
    /\ message_container = <<>>
    /\ segment_pages = <<>>
    /\ month_segment_list = NoNode
    /\ month_list = NoNode
    /\ year_list = NoNode
    /\ group_avatars = NoAvatars
    /\ created = [page |-> 0, chat |-> 0, list |-> 0]
    /\ events = <<>>
    /\ dirs = {}
    /\ call = NoCall
    /\ result = NoResult

(***************************************************************************)
(* new_day_page and create_chat_header.                                    *)
(***************************************************************************)
\* date and start_date are <<month, day, year>>; start_date <<>> is ''.
new_day_page(id, date, start_date) ==
    [id |-> id,
     date |-> date,
     start |-> IF start_date = <<>>
               THEN month_segment_start(date[1], date[2], date[3])
               ELSE start_date,
     end |-> month_segment_end(date[1], date[2], date[3]),
     tabs |-> <<>>,
     container |-> <<>>]

\* A slip: a stored absent avatar counts as not stored.
cache_hit_if_avatar(cache, chat) ==
    IF chat \in DOMAIN cache THEN cache[chat] # "" ELSE FALSE

\* The avatar of the message's chat: from the cache when the chat name is a
\* key of it, else from the collaborator, and then stored.
cache_hit(cache, chat) == chat \in DOMAIN cache

chat_avatar(cache, chat) ==
    IF cache_hit(cache, chat) THEN cache[chat] ELSE ImageUrl(chat)

store_avatar(cache, chat) ==
    IF cache_hit(cache, chat) THEN cache
    ELSE [c \in DOMAIN cache \cup {chat} |->
            IF c = chat THEN ImageUrl(chat) ELSE cache[c]]

create_chat_header(cache, message) ==
    [chat |-> message.chat,
     avatar |-> chat_avatar(cache, message.chat),
     dm |-> ~IsGroupChat(message.chat)]

header_lookups(cache, message) ==
    IF cache_hit(cache, message.chat) THEN <<>> ELSE <<GetChat(message.chat)>>

new_chat_div(id, cache, message) ==
    [id |-> id, header |-> create_chat_header(cache, message), messages |-> <<>>]

(***************************************************************************)
(* The boundary checks of the loop body, in the order main nests them.     *)
(***************************************************************************)
\* A slip: every message starts a chat block.
new_chat_or_day_always(message, chat, day) == TRUE

new_chat_or_day(message, chat, day) ==
    message.chat # chat \/ message.day # day

new_day(message, day) == message.day # day

\* A slip: every new day is taken for a new segment.
new_month_segment_every_day(message, segment) == TRUE

new_month_segment(message, segment) ==
    calculate_month_segment(message.day) # segment

new_month(message, month) == message.month # month

new_year(message, year) == message.year # year

(***************************************************************************)
(* Closing the open chat block, the open day page and the open segment.    *)
(***************************************************************************)
\* chat_div.append_child(message_container); container.append_child(chat_div)
end_chat(page, chat, container) ==
    [page EXCEPT !.container = Append(@, [chat EXCEPT !.messages = container])]

\* A slip: the list is rebuilt from the page instead of appended to.
add_day_page_replacing(pages, day, page) == <<<<day, page>>>>

\* segment_pages.append((curr_day, day_page))
add_day_page(pages, day, page) == Append(pages, <<day, page>>)

\* The tabs appended to the header of the page of `day`: one per pair of
\* the segment's page list, labelled and linked with the current month.
segment_tabs(pages, month, day) ==
    [k \in 1..Len(pages) |->
        [text |-> DayLabel(month, pages[k][1]),
         selected |-> pages[k][1] = day,
         href |-> DayFile(month, pages[k][1])]]

\* "Process current month segment day pages" of the loop body: every page
\* of the list gets its tabs and is exported, in list order.
process_segment_pages(pages, year, month) ==
    [k \in 1..Len(pages) |->
        Export(DayPagePath(year, month, pages[k][1]),
               [pages[k][2] EXCEPT
                    !.tabs = @ \o segment_tabs(pages, month, pages[k][1])])]

\* A slip: after the loop no tab is marked as selected.
finish_segment_pages_unselected(pages, year, month) ==
    [k \in 1..Len(pages) |->
        Export(DayPagePath(year, month, pages[k][1]),
               [pages[k][2] EXCEPT
                    !.tabs = @ \o [j \in 1..Len(pages) |->
                        [segment_tabs(pages, month, pages[k][1])[j]
                            EXCEPT !.selected = FALSE]]])]

\* "Process segment pages" after the loop.
finish_segment_pages(pages, year, month) ==
    [k \in 1..Len(pages) |->
        Export(DayPagePath(year, month, pages[k][1]),
               [pages[k][2] EXCEPT
                    !.tabs = @ \o segment_tabs(pages, month, pages[k][1])])]

(***************************************************************************)
(* The lists of the cover page.                                            *)
(***************************************************************************)
\* The entry of a month segment: its start label, linked to the day page.
month_segment_entry(year, month, day) ==
    Link(DayPagePath(year, month, day), Li(DayLabel(month, day)))

\* month_list.append_child(month_segment_list)
end_month_segment_list(months, segments) == append_child(months, segments)

\* A slip: the closed month list is not attached.
end_month_list_dropped(years, months) == years

\* year_list.append_child(month_list)
end_month_list(years, months) == append_child(years, months)

\* year_list.append_child(Node('li', content=str(curr_year)))
add_year(years, year) == append_child(years, Li(ToString(year)))

\* month_list.append_child(Node('li', content=MONTH_NAMES[curr_month - 1]))
add_month(months, month) == append_child(months, Li(MONTH_NAMES[month]))

StylePath(dir) == dir \o "/style.css"

(***************************************************************************)
(* main, in steps: the messages are fetched, and then either the result is *)
(* empty, or the set-up before the loop, the iterations of the loop and    *)
(* the finish after it follow.                                             *)
(***************************************************************************)
\* get_messages puts together the list it returns, message by message.
FetchMessage ==
    /\ pc = "fetch"
    /\ Len(messages) < MaxLen
    /\ \E m \in MessageValues :
          /\ MayFollow(messages, m)
          /\ messages' = Append(messages, m)
    /\ UNCHANGED <<pc, index, ret, builder, events, dirs, call, result>>

\* chat.get_messages, for a run with a chat name, puts together a list of
\* messages of that chat.
FetchChatMessage ==
    /\ pc = "fetch"
    /\ Len(messages) < MaxLen
    /\ \E m \in {v \in MessageValues : v.chat = ChatName} :
          /\ MayFollow(messages, m)
          /\ messages' = Append(messages, m)
    /\ UNCHANGED <<pc, index, ret, builder, events, dirs, call, result>>

\* get_messages returns.
GetMessages ==
    /\ pc = "fetch"
    /\ pc' = "start"
    /\ UNCHANGED <<messages, index, ret, builder, events, dirs, call, result>>

\* A slip: the check comes after "Create cover stylesheet".
NoMessagesAfterStylesheet ==
    /\ pc = "start"
    /\ Len(messages) = 0
    /\ events' = events \o <<WriteStyle("style.css"), Printed("No messages found")>>
    /\ ret' = 0
    /\ pc' = "done"
    /\ UNCHANGED <<messages, index, builder, dirs, call, result>>

\* "Check that there is at least one message"
NoMessages ==
    /\ pc = "start"
    /\ Len(messages) = 0
    /\ events' = Append(events, Printed("No messages found"))
    /\ ret' = 0
    /\ pc' = "done"
    /\ UNCHANGED <<messages, index, builder, dirs, call, result>>

\* From "Create variables for tracking year", past the creation of the year
\* directory, to "Create message container"; logged is what main did
\* before.
SetupFrom(first, logged) ==
    LET date == <<first.month, first.day, first.year>>
    IN /\ curr_year' = first.year
       /\ curr_month' = first.month
       /\ curr_day' = first.day
       /\ curr_month_segment' = calculate_month_segment(first.day)
       /\ curr_chat' = first.chat
       /\ year_list' = add_year(YearList(1), first.year)
       /\ month_list' = add_month(MonthList(2), first.month)
       /\ month_segment_list' =
             append_child(StartDateList(3),
                 month_segment_entry(first.year, first.month, first.day))
       /\ day_page' = new_day_page(1, date, date)
       /\ segment_pages' = <<>>
       /\ chat_div' = new_chat_div(1, group_avatars, first)
       /\ message_container' = <<>>
       /\ group_avatars' = store_avatar(group_avatars, first.chat)
       /\ created' = [page |-> 1, chat |-> 1, list |-> 3]
       /\ events' = events \o logged \o
             <<Mkdir(YearDir(first.year)),
               Mkdir(MonthDir(first.year, first.month)),
               WriteStyle(StylePath(MonthDir(first.year, first.month)))>>
             \o header_lookups(group_avatars, first)
       /\ dirs' = dirs \cup {YearDir(first.year),
                              MonthDir(first.year, first.month)}

\* From "Read stylesheets" to "Create message container", when the year
\* directory can be created.
Setup ==
    /\ pc = "start"
    /\ Len(messages) # 0
    /\ YearDir(messages[1].year) \notin dirs
    /\ MonthDir(messages[1].year, messages[1].month) \notin dirs
    /\ SetupFrom(messages[1], <<WriteStyle("style.css")>>)
    /\ index' = 1
    /\ pc' = "loop"
    /\ UNCHANGED <<messages, ret, call, result>>

\* From "Read stylesheets" to the input() of the FileExistsError handler,
\* when the year directory exists.
SetupCollides ==
    /\ pc = "start"
    /\ Len(messages) # 0
    /\ YearDir(messages[1].year) \in dirs
    /\ curr_year' = messages[1].year
    /\ year_list' = YearList(1)
    /\ created' = [created EXCEPT !.list = 1]
    /\ events' = events \o
          <<WriteStyle("style.css"),
            MkdirFailed(YearDir(messages[1].year)),
            Asked(YearDir(messages[1].year))>>
    /\ pc' = "setup_prompt"
    /\ UNCHANGED <<messages, index, ret, curr_month, curr_day,
                   curr_month_segment, curr_chat, day_page, chat_div,
                   message_container, segment_pages, month_segment_list,
                   month_list, group_avatars, dirs, call, result>>

\* The second os.mkdir of a handler raises FileExistsError when the user
\* pressed ENTER and the folder is still there; nothing catches it.
RetryFails(path) ==
    /\ path \in dirs
    /\ events' = Append(events, MkdirFailed(path))
    /\ pc' = "aborted"
    /\ UNCHANGED <<messages, index, ret, builder, dirs, call, result>>

\* The user presses ENTER, with the folder (and all below it) deleted or
\* not; then from the second os.mkdir to "Create message container".
SetupRetry ==
    /\ pc = "setup_prompt"
    /\ \/ RetryFails(YearDir(curr_year))
       \/ /\ SetupFrom(messages[1], <<>>)
          /\ index' = 1
          /\ pc' = "loop"
          /\ UNCHANGED <<messages, ret, call, result>>

\* One iteration of "for message in messages".
ProcessMessage ==
    /\ pc = "loop"
    /\ index <= Len(messages)
    /\ LET message == messages[index]
           change == new_chat_or_day(message, curr_chat, curr_day)
           day_changed == change /\ new_day(message, curr_day)
           segment_changed ==
               day_changed /\ new_month_segment(message, curr_month_segment)
           month_changed == segment_changed /\ new_month(message, curr_month)
           year_changed == month_changed /\ new_year(message, curr_year)
           \* End current chat
           ended_page == end_chat(day_page, chat_div, message_container)
           \* Add current day page to list
           pages == add_day_page(segment_pages, curr_day, ended_page)
           \* Process current month segment day pages
           exports == IF segment_changed
                      THEN process_segment_pages(pages, curr_year, curr_month)
                      ELSE <<>>
           year == IF year_changed THEN message.year ELSE curr_year
           month == IF month_changed THEN message.month ELSE curr_month
           \* End current month segment list
           months_ended == end_month_segment_list(month_list, month_segment_list)
           years == IF year_changed
                    THEN add_year(end_month_list(year_list, months_ended), year)
                    ELSE year_list
           lists == created.list + (IF year_changed THEN 1 ELSE 0)
                                 + (IF month_changed THEN 1 ELSE 0)
           months == IF ~month_changed THEN month_list
                     ELSE add_month(IF year_changed THEN MonthList(created.list + 1)
                                    ELSE months_ended, month)
           segments == IF month_changed THEN StartDateList(lists) ELSE month_segment_list
           made == (IF year_changed THEN <<Mkdir(YearDir(year))>> ELSE <<>>)
                   \o (IF month_changed
                       THEN <<Mkdir(MonthDir(year, month)),
                              WriteStyle(StylePath(MonthDir(year, month)))>>
                       ELSE <<>>)
           date == <<message.month, message.day, message.year>>
       IN /\ year_changed => YearDir(year) \notin dirs
          /\ month_changed => MonthDir(year, month) \notin dirs
          /\ dirs' = dirs \cup (IF year_changed THEN {YearDir(year)} ELSE {})
                           \cup (IF month_changed THEN {MonthDir(year, month)}
                                 ELSE {})
          /\ curr_year' = year
          /\ curr_month' = month
          /\ curr_month_segment' =
                IF segment_changed THEN calculate_month_segment(message.day)
                ELSE curr_month_segment
          /\ curr_day' = IF day_changed THEN message.day ELSE curr_day
          /\ curr_chat' = IF change THEN message.chat ELSE curr_chat
          /\ year_list' = years
          /\ month_list' = months
          /\ month_segment_list' =
                IF segment_changed
                THEN append_child(segments,
                        month_segment_entry(year, month, message.day))
                ELSE month_segment_list
          /\ segment_pages' = IF segment_changed THEN <<>>
                              ELSE IF day_changed THEN pages
                              ELSE segment_pages
          /\ day_page' = IF day_changed
                         THEN new_day_page(created.page + 1, date, <<>>)
                         ELSE IF change THEN ended_page
                         ELSE day_page
          /\ chat_div' = IF change
                         THEN new_chat_div(created.chat + 1, group_avatars, message)
                         ELSE chat_div
          /\ message_container' =
                IF change THEN <<index>> ELSE Append(message_container, index)
          /\ group_avatars' = IF change
                              THEN store_avatar(group_avatars, message.chat)
                              ELSE group_avatars
          /\ created' = [page |-> created.page + (IF day_changed THEN 1 ELSE 0),
                         chat |-> created.chat + (IF change THEN 1 ELSE 0),
                         list |-> lists]
          /\ events' = events \o exports \o made
                \o (IF change THEN header_lookups(group_avatars, message)
                    ELSE <<>>)
                \o <<Rendered(index)>>
    /\ index' = index + 1
    /\ UNCHANGED <<messages, pc, ret, call, result>>

\* An iteration of the loop that finds a new year whose directory exists:
\* from "End current chat" to the input() of the FileExistsError handler.
ProcessMessageCollides ==
    /\ pc = "loop"
    /\ index <= Len(messages)
    /\ LET message == messages[index]
           ended_page == end_chat(day_page, chat_div, message_container)
           pages == add_day_page(segment_pages, curr_day, ended_page)
           exports == process_segment_pages(pages, curr_year, curr_month)
           months_ended == end_month_segment_list(month_list, month_segment_list)
       IN /\ new_chat_or_day(message, curr_chat, curr_day)
          /\ new_day(message, curr_day)
          /\ new_month_segment(message, curr_month_segment)
          /\ new_month(message, curr_month)
          /\ new_year(message, curr_year)
          /\ YearDir(message.year) \in dirs
          /\ chat_div' = [chat_div EXCEPT !.messages = message_container]
          /\ segment_pages' =
                [k \in 1..Len(pages) |-> <<pages[k][1], exports[k].page>>]
          /\ day_page' = exports[Len(exports)].page
          /\ month_list' = months_ended
          /\ year_list' = end_month_list(year_list, months_ended)
          /\ curr_year' = message.year
          /\ events' = events \o exports \o
                <<MkdirFailed(YearDir(message.year)),
                  Asked(YearDir(message.year))>>
    /\ pc' = "loop_prompt"
    /\ UNCHANGED <<messages, index, ret, curr_month, curr_day,
                   curr_month_segment, curr_chat, message_container,
                   month_segment_list, group_avatars, created, dirs, call,
                   result>>

\* The user presses ENTER, with the folder (and all below it) deleted or
\* not; then from the second os.mkdir to the end of the iteration.
ProcessMessageRetry ==
    /\ pc = "loop_prompt"
    /\ \/ RetryFails(YearDir(curr_year))
       \/ LET message == messages[index]
              date == <<message.month, message.day, message.year>>
          IN /\ dirs' = dirs \cup {YearDir(curr_year),
                                    MonthDir(curr_year, message.month)}
             /\ year_list' = add_year(year_list, curr_year)
             /\ curr_month' = message.month
             /\ month_list' =
                   add_month(MonthList(created.list + 1), message.month)
             /\ curr_month_segment' = calculate_month_segment(message.day)
             /\ curr_day' = message.day
             /\ month_segment_list' =
                   append_child(StartDateList(created.list + 2),
                      month_segment_entry(curr_year, message.month, message.day))
             /\ segment_pages' = <<>>
             /\ day_page' = new_day_page(created.page + 1, date, <<>>)
             /\ curr_chat' = message.chat
             /\ chat_div' = new_chat_div(created.chat + 1, group_avatars, message)
             /\ message_container' = <<index>>
             /\ group_avatars' = store_avatar(group_avatars, message.chat)
             /\ created' = [page |-> created.page + 1,
                            chat |-> created.chat + 1,
                            list |-> created.list + 2]
             /\ events' = events \o
                   <<Mkdir(YearDir(curr_year)),
                     Mkdir(MonthDir(curr_year, message.month)),
                     WriteStyle(StylePath(MonthDir(curr_year, message.month)))>>
                   \o header_lookups(group_avatars, message)
                   \o <<Rendered(index)>>
             /\ index' = index + 1
             /\ pc' = "loop"
             /\ UNCHANGED <<messages, ret, curr_year, call, result>>

\* From "Finish appending and exporting all files" to "return 0".
Finish ==
    /\ pc = "loop"
    /\ index > Len(messages)
    /\ LET ended_page == end_chat(day_page, chat_div, message_container)
           pages == add_day_page(segment_pages, curr_day, ended_page)
           exports == finish_segment_pages(pages, curr_year, curr_month)
           months == end_month_segment_list(month_list, month_segment_list)
           years == end_month_list(year_list, months)
       IN /\ segment_pages' =
                [k \in 1..Len(pages) |-> <<pages[k][1], exports[k].page>>]
          /\ day_page' = exports[Len(exports)].page
          /\ chat_div' = [chat_div EXCEPT !.messages = message_container]
          /\ month_list' = months
          /\ year_list' = years
          /\ events' = events \o exports \o <<ExportCover(years)>>
    /\ ret' = 0
    /\ pc' = "done"
    /\ UNCHANGED <<messages, index, curr_year, curr_month, curr_day,
                   curr_month_segment, curr_chat, message_container,
                   month_segment_list, group_avatars, created, dirs,
                   call, result>>

Next == FetchMessage \/ GetMessages \/ NoMessages \/ Setup \/ ProcessMessage \/ Finish

Spec == Init /\ [][Next]_vars

(***************************************************************************)
(* The helpers of the calendar, called on their own for one date: call     *)
(* holds the date, result what each helper returned for it (0, <<>> and "" *)
(* where the helper was not called yet).                                   *)
(***************************************************************************)
CalendarYears == {1900, 2000, 2023, 2024}

\* The days of the month, by the calendar.
DaysInMonth(month, year) ==
    IF month = 2
    THEN IF year % 400 = 0 THEN 29
         ELSE IF year % 100 = 0 THEN 28
         ELSE IF year % 4 = 0 THEN 29
         ELSE 28
    ELSE <<31, 0, 31, 30, 31, 30, 31, 31, 30, 31, 30, 31>>[month]

ValidDates ==
    {d \in [month : 1..12, day : 1..31, year : CalendarYears] :
        d.day <= DaysInMonth(d.month, d.year)}

InitCalendar ==
    /\ messages = <<>>
    /\ pc = "calendar"
    /\ index = 0
    /\ ret = -1
    /\ curr_year = 0
    /\ curr_month = 0
    /\ curr_day = 0
    /\ curr_month_segment = 0
    /\ curr_chat = ""
    /\ day_page = NoPage
    /\ chat_div = NoChat
    /\ message_container = <<>>
    /\ segment_pages = <<>>
    /\ month_segment_list = NoNode
    /\ month_list = NoNode
    /\ year_list = NoNode
    /\ group_avatars = NoAvatars
    /\ created = [page |-> 0, chat |-> 0, list |-> 0]
    /\ events = <<>>
    /\ dirs = {}
    /\ \E d \in ValidDates :
          call = [fn |-> "calendar", month |-> d.month, day |-> d.day,
                  year |-> d.year]
    /\ result = [state |-> "calendar", segment |-> 0, start |-> <<>>,
                 end |-> <<>>, suffix |-> ""]

CalculateMonthSegment ==
    /\ pc = "calendar"
    /\ result.segment = 0
    /\ result' = [result EXCEPT !.segment = calculate_month_segment(call.day)]
    /\ UNCHANGED <<messages, pc, index, ret, builder, events, dirs, call>>

MonthSegmentStart ==
    /\ pc = "calendar"
    /\ result.start = <<>>
    /\ result' = [result EXCEPT
                    !.start = month_segment_start(call.month, call.day, call.year)]
    /\ UNCHANGED <<messages, pc, index, ret, builder, events, dirs, call>>

MonthSegmentEnd ==
    /\ pc = "calendar"
    /\ result.end = <<>>
    /\ result' = [result EXCEPT
                    !.end = month_segment_end(call.month, call.day, call.year)]
    /\ UNCHANGED <<messages, pc, index, ret, builder, events, dirs, call>>

DaySuffix ==
    /\ pc = "calendar"
    /\ result.suffix = ""
    /\ result' = [result EXCEPT !.suffix = day_suffix(call.day)]
    /\ UNCHANGED <<messages, pc, index, ret, builder, events, dirs, call>>

NextCalendar ==
    CalculateMonthSegment \/ MonthSegmentStart \/ MonthSegmentEnd \/ DaySuffix

SpecCalendar == InitCalendar /\ [][NextCalendar]_vars

(***************************************************************************)
(* groupme.py: get_chats up to its first request, with get_cutoff and      *)
(* to_seconds.  A string is held as the sequence of its characters.  Time  *)
(* is counted in minutes since 1970, not in seconds, so that the dates of  *)
(* all years datetime accepts stay inside the integers of the checker;     *)
(* the clock stands still during a call, and local time is UTC.            *)
(***************************************************************************)
MaxArg == 5

Characters == {"1", "2", "-", "/", "d", "m", "x"}

Digits == <<"0", "1", "2", "3", "4", "5", "6", "7", "8", "9">>

Strings == UNION {[1..n -> Characters] : n \in 0..MaxArg}

\* The instants at which get_chats is called: the fields of time.localtime.
Nows ==
    {[year |-> 2026, month |-> 3, day |-> 31, hour |-> 12, minute |-> 0],
     [year |-> 2026, month |-> 11, day |-> 1, hour |-> 9, minute |-> 30]}

\* last_used.split('/')
RECURSIVE split(_)
split(string) ==
    IF \A k \in DOMAIN string : string[k] # "/" THEN <<string>>
    ELSE LET at == CHOOSE k \in DOMAIN string :
                      /\ string[k] = "/"
                      /\ \A j \in 1..(k - 1) : string[j] # "/"
         IN <<SubSeq(string, 1, at - 1)>>
                \o split(SubSeq(string, at + 1, Len(string)))

DigitValue(char) == (CHOOSE v \in DOMAIN Digits : Digits[v] = char) - 1

IsDigit(char) == \E v \in DOMAIN Digits : Digits[v] = char

\* int(string) returns for an optional sign and then one digit or more (of
\* the characters at hand), and raises ValueError else.
IsInt(string) ==
    LET digits == IF Len(string) > 0 /\ string[1] = "-" THEN Tail(string)
                  ELSE string
    IN Len(digits) > 0 /\ \A k \in DOMAIN digits : IsDigit(digits[k])

RECURSIVE Natural(_)
Natural(digits) ==
    IF Len(digits) = 0 THEN 0
    ELSE Natural(SubSeq(digits, 1, Len(digits) - 1)) * 10
            + DigitValue(digits[Len(digits)])

int(string) ==
    IF string[1] = "-" THEN 0 - Natural(Tail(string)) ELSE Natural(string)

\* What a function comes to: a value it returns, or an exception it raises.
Returns(value) == [raised |-> "", none |-> FALSE, value |-> value]

ReturnsNone == [raised |-> "", none |-> TRUE, value |-> 0]

Raises(exception) == [raised |-> exception, none |-> FALSE, value |-> 0]

\* datetime(year, month, day, ...) raises ValueError for a date that is not
\* of the calendar.
IsDate(year, month, day) ==
    /\ year \in 1..9999
    /\ month \in 1..12
    /\ day >= 1
    /\ day <= DaysInMonth(month, year)

\* timestamp() looks a day back for the local time of a date, and raises
\* ValueError when that leaves the years of datetime.
HasLocalTime(year, month, day) == <<year, month, day>> # <<1, 1, 1>>

\* The days from 1/1/1970 to a date of the calendar.
DaysSince1970(year, month, day) ==
    LET y == IF month <= 2 THEN year - 1 ELSE year
        era == y \div 400
        yoe == y - era * 400
        doy == (153 * (IF month > 2 THEN month - 3 ELSE month + 9) + 2) \div 5
                  + day - 1
        doe == yoe * 365 + yoe \div 4 - yoe \div 100 + doy
    IN era * 146097 + doe - 719468

\* datetime(...).timestamp(), and time.time() for the fields of now.
timestamp(year, month, day, hour, minute) ==
    (DaysSince1970(year, month, day) * 24 + hour) * 60 + minute

time(now) == timestamp(now.year, now.month, now.day, now.hour, now.minute)

\* A slip: a unit that is not known counts as the unit of time itself.
to_seconds_lenient(number, units, now) ==
    IF units = <<"d">> THEN Returns(number * 60 * 24)
    ELSE Returns(number)

to_seconds(number, units, now) ==
    IF units = <<"m", "i", "n">> THEN Returns(number)
    ELSE IF units = <<"h">> THEN Returns(number * 60)
    ELSE IF units = <<"d">> THEN Returns(number * 60 * 24)
    ELSE IF units = <<"w">> THEN Returns(number * 60 * 24 * 7)
    ELSE IF units = <<"m">>
    THEN LET months_to_subtract == number % 12
             years_to_subtract == number \div 12
             year == now.year - years_to_subtract
             month == now.month - months_to_subtract
         IN IF IsDate(year, month, now.day)
            THEN Returns(time(now)
                    - timestamp(year, month, now.day, now.hour, now.minute))
            ELSE Raises("ValueError")
    ELSE IF units = <<"y">>
    THEN IF IsDate(now.year - number, now.month, now.day)
         THEN Returns(time(now)
                 - timestamp(now.year - number, now.month, now.day,
                             now.hour, now.minute))
         ELSE Raises("ValueError")
    ELSE Raises("GroupMeException")

get_cutoff(last_used, now) ==
    IF last_used = <<>> THEN ReturnsNone
    ELSE LET date_components == split(last_used)
         IN IF Len(date_components) = 1
            THEN LET number == SubSeq(last_used, 1, Len(last_used) - 1)
                     unit == SubSeq(last_used, Len(last_used), Len(last_used))
                 IN IF ~IsInt(number) THEN Raises("GroupMeException")
                    ELSE LET timespan == to_seconds(int(number), unit, now)
                         IN IF timespan.raised # "" THEN timespan
                            ELSE Returns(time(now) - timespan.value)
            ELSE IF Len(date_components) = 3
            THEN IF \E k \in 1..3 : ~IsInt(date_components[k])
                 THEN Raises("GroupMeException")
                 ELSE LET month == int(date_components[1])
                          day == int(date_components[2])
                          year == int(date_components[3])
                      IN IF IsDate(year, month, day) /\ HasLocalTime(year, month, day)
                         THEN Returns(time(now)
                                 - (time(now) - timestamp(year, month, day, 0, 0)))
                         ELSE Raises("ValueError")
            ELSE Raises("GroupMeException")

\* call_api(url, params) for a page of the groups or of the direct messages.
Requested(url, page) == Event("request", url, NoPage, NoNode, page)

InitGetChats ==
    /\ messages = <<>>
    /\ pc = "get_chats"
    /\ index = 0
    /\ ret = -1
    /\ curr_year = 0
    /\ curr_month = 0
    /\ curr_day = 0
    /\ curr_month_segment = 0
    /\ curr_chat = ""
    /\ day_page = NoPage
    /\ chat_div = NoChat
    /\ message_container = <<>>
    /\ segment_pages = <<>>
    /\ month_segment_list = NoNode
    /\ month_list = NoNode
    /\ year_list = NoNode
    /\ group_avatars = NoAvatars
    /\ created = [page |-> 0, chat |-> 0, list |-> 0]
    /\ events = <<>>
    /\ dirs = {}
    /\ \E string \in Strings, now \in Nows :
          call = [fn |-> "get_chats", last_used |-> string, now |-> now]
    /\ result = [state |-> "called"]

\* get_chats from its first line to the first call of call_api: the cutoff
\* is determined, and then the first page of the groups is requested.
GetChats ==
    /\ pc = "get_chats"
    /\ result.state = "called"
    /\ LET cutoff == get_cutoff(call.last_used, call.now)
       IN IF cutoff.raised # ""
          THEN /\ result' = [state |-> "raised", error |-> cutoff.raised]
               /\ UNCHANGED events
          ELSE /\ result' = [state |-> "groups", cutoff |-> cutoff,
                               page |-> 1, in_range |-> TRUE,
                               groups |-> <<>>, direct_messages |-> <<>>,
                               chats |-> <<>>]
               /\ events' = Append(events, Requested("/groups", 1))
    /\ UNCHANGED <<messages, pc, index, ret, builder, dirs, call>>

NextGetChats == GetChats

SpecGetChats == InitGetChats /\ [][NextGetChats]_vars

(***************************************************************************)
(* get_chats after its first request: the pages of the groups, the pages   *)
(* of the direct messages, and the merge of the two lists.  The account's  *)
(* chats are what the API lists, page by page; a page past the last one is *)
(* the empty list.                                                         *)
(***************************************************************************)

\* The largest number of groups, and of direct messages, of the account.
MaxItems == 2

\* 'per_page': 10 of the request parameters: no page holds more items.
per_page == 10

\* The instant of the call.
ChatsNow == [year |-> 2026, month |-> 11, day |-> 1, hour |-> 9, minute |-> 30]

\* The last_used arguments: none, one day, and the date whose cutoff is the
\* number 0.
LastUsedValues ==
    {<<>>, <<"1", "d">>, <<"1", "/", "1", "/", "1", "9", "7", "0">>}

\* The times of the last messages of the chats: before the cutoff of one day,
\* at that cutoff, and after it.
ItemTimes == {time(ChatsNow) - 2000, time(ChatsNow) - 1440, time(ChatsNow) - 100}

\* The items of a listing, cut into pages after the positions of cuts.
Paged(items, cuts) ==
    IF items = <<>> THEN <<>>
    ELSE LET starts == {1} \cup {c + 1 : c \in cuts}
             nth(k) == CHOOSE s \in starts :
                          Cardinality({t \in starts : t < s}) = k - 1
             last(k) == IF k = Cardinality(starts) THEN Len(items)
                        ELSE nth(k + 1) - 1
         IN [k \in 1..Cardinality(starts) |->
                SubSeq(items, nth(k), last(k))]

\* What the API can list for one kind of chat: the pages of the listing, each
\* of 1..per_page items.
Listings ==
    {pages \in
        {Paged([k \in 1..n |-> [name |-> k, created_at |-> times[k]]], cuts) :
            <<n, times, cuts>> \in
                UNION {{<<n, times, cuts>> :
                           times \in [1..n -> ItemTimes],
                           cuts \in SUBSET (1..(n - 1))} : n \in 0..MaxItems}} :
        \A k \in DOMAIN pages : Len(pages[k]) \in 1..per_page}

\* json.loads(response.text)['response'] of call_api for page number page.
Response(pages, page) == IF page \in DOMAIN pages THEN pages[page] ELSE <<>>

\* Group(group): last_used is data['messages']['last_message_created_at'].
Group(data) ==
    [type |-> "Group", name |-> data.name, last_used |-> data.created_at]

\* DirectMessage(dm): last_used is data['last_message']['created_at'].
DirectMessage(data) ==
    [type |-> "DirectMessage", name |-> data.name,
     last_used |-> data.created_at]

\* The test 'if cutoff:' of the page loops: neither None nor the number 0.
has_cutoff(cutoff) == ~cutoff.none /\ cutoff.value # 0

\* The variant that breaks also at a last message sent at the cutoff.
RECURSIVE in_range_items_after(_, _)
in_range_items_after(page, cutoff) ==
    IF page = <<>> THEN <<>>
    ELSE IF has_cutoff(cutoff) /\ page[1].created_at <= cutoff.value THEN <<>>
    ELSE <<page[1]>> \o in_range_items_after(Tail(page), cutoff)

\* The for loop over one page: the items before the first one whose last
\* message is earlier than the cutoff, at which the loop breaks.
RECURSIVE in_range_items(_, _)
in_range_items(page, cutoff) ==
    IF page = <<>> THEN <<>>
    ELSE IF has_cutoff(cutoff) /\ page[1].created_at < cutoff.value THEN <<>>
    ELSE <<page[1]>> \o in_range_items(Tail(page), cutoff)

\* The variant of the merge that takes the group when it is the older one.
RECURSIVE merge_older_first(_, _)
merge_older_first(groups, dms) ==
    IF groups # <<>> /\ dms # <<>>
    THEN IF groups[1].last_used < dms[1].last_used
         THEN <<groups[1]>> \o merge_older_first(Tail(groups), dms)
         ELSE <<dms[1]>> \o merge_older_first(groups, Tail(dms))
    ELSE IF groups = <<>> THEN dms ELSE groups

\* The merge of the two lists: while both have a chat left the group is
\* taken when it is the more recent one and the direct message otherwise;
\* then the list that has chats left is appended.
RECURSIVE merge(_, _)
merge(groups, dms) ==
    IF groups # <<>> /\ dms # <<>>
    THEN IF groups[1].last_used > dms[1].last_used
         THEN <<groups[1]>> \o merge(Tail(groups), dms)
         ELSE <<dms[1]>> \o merge(groups, Tail(dms))
    ELSE IF groups = <<>> THEN dms ELSE groups

\* The Group objects, and the DirectMessage objects, made of the items.
GroupsOf(items) == [k \in DOMAIN items |-> Group(items[k])]

DirectMessagesOf(items) == [k \in DOMAIN items |-> DirectMessage(items[k])]

InitChats ==
    /\ messages = <<>>
    /\ pc = "get_chats"
    /\ index = 0
    /\ ret = 0
    /\ curr_year = 0
    /\ curr_month = 0
    /\ curr_day = 0
    /\ curr_month_segment = 0
    /\ curr_chat = ""
    /\ day_page = NoNode
    /\ chat_div = NoNode
    /\ message_container = <<>>
    /\ segment_pages = <<>>
    /\ month_segment_list = <<>>
    /\ month_list = <<>>
    /\ year_list = <<>>
    /\ group_avatars = {}
    /\ created = 0
    /\ events = <<>>
    /\ dirs = {}
    /\ \E last_used \in LastUsedValues, groups \in Listings, chats \in Listings :
          call = [fn |-> "get_chats", last_used |-> last_used, now |-> ChatsNow,
                  groups |-> groups, chats |-> chats]
    /\ result = [state |-> "called"]

\* One turn of the loop over the group pages: the groups of the page are
\* appended up to the break, and the next page is requested (also after a
\* break).
GroupPage ==
    /\ pc = "get_chats"
    /\ result.state = "groups"
    /\ LET group_page == Response(call.groups, result.page)
           kept == in_range_items(group_page, result.cutoff)
       IN /\ Len(group_page) > 0 /\ result.in_range
          /\ result' = [result EXCEPT
                          !.groups = @ \o GroupsOf(kept),
                          !.in_range = (kept = group_page),
                          !.page = @ + 1]
          /\ events' = Append(events, Requested("/groups", result.page + 1))
    /\ UNCHANGED <<messages, pc, index, ret, builder, dirs, call>>

\* The loop over the group pages ends, and the first page of the direct
\* messages is requested.
GroupsDone ==
    /\ pc = "get_chats"
    /\ result.state = "groups"
    /\ ~(Len(Response(call.groups, result.page)) > 0 /\ result.in_range)
    /\ result' = [result EXCEPT !.state = "chats", !.page = 1,
                                !.in_range = TRUE]
    /\ events' = Append(events, Requested("/chats", 1))
    /\ UNCHANGED <<messages, pc, index, ret, builder, dirs, call>>

\* One turn of the loop over the pages of the direct messages.
ChatPage ==
    /\ pc = "get_chats"
    /\ result.state = "chats"
    /\ LET dm_page == Response(call.chats, result.page)
           kept == in_range_items(dm_page, result.cutoff)
       IN /\ Len(dm_page) > 0 /\ result.in_range
          /\ result' = [result EXCEPT
                          !.direct_messages = @ \o DirectMessagesOf(kept),
                          !.in_range = (kept = dm_page),
                          !.page = @ + 1]
          /\ events' = Append(events, Requested("/chats", result.page + 1))
    /\ UNCHANGED <<messages, pc, index, ret, builder, dirs, call>>

\* The loop over the pages of the direct messages ends; the two lists are
\* merged and returned.
ChatsDone ==
    /\ pc = "get_chats"
    /\ result.state = "chats"
    /\ ~(Len(Response(call.chats, result.page)) > 0 /\ result.in_range)
    /\ result' = [result EXCEPT
                    !.state = "returned",
                    !.chats = merge(result.groups, result.direct_messages)]
    /\ UNCHANGED <<messages, pc, index, ret, builder, events, dirs, call>>

\* call_api raises when the status of the response is not 200.
ApiFails ==
    /\ pc = "get_chats"
    /\ result.state \in {"groups", "chats"}
    /\ result' = [state |-> "raised", error |-> "GroupMeException"]
    /\ UNCHANGED <<messages, pc, index, ret, builder, events, dirs, call>>

NextChats ==
    \/ GetChats
    \/ GroupPage
    \/ GroupsDone
    \/ ChatPage
    \/ ChatsDone
    \/ ApiFails

SpecChats == InitChats /\ [][NextChats]_vars

(***************************************************************************)
(* to_seconds called on its own, at noon of the 15th of each month of a     *)
(* year.                                                                   *)
(***************************************************************************)

\* The largest number passed to to_seconds.
MaxNumber == 24

\* The units to_seconds knows.
UnitsOfTime == {<<"m", "i", "n">>, <<"h">>, <<"d">>, <<"w">>, <<"m">>, <<"y">>}

\* The instants of the calls.
Instants ==
    {[year |-> 2026, month |-> month, day |-> 15, hour |-> 12, minute |-> 0] :
        month \in 1..12}

InitToSeconds ==
    /\ messages = <<>>
    /\ pc = "to_seconds"
    /\ index = 0
    /\ ret = 0
    /\ curr_year = 0
    /\ curr_month = 0
    /\ curr_day = 0
    /\ curr_month_segment = 0
    /\ curr_chat = ""
    /\ day_page = NoNode
    /\ chat_div = NoNode
    /\ message_container = <<>>
    /\ segment_pages = <<>>
    /\ month_segment_list = <<>>
    /\ month_list = <<>>
    /\ year_list = <<>>
    /\ group_avatars = {}
    /\ created = 0
    /\ events = <<>>
    /\ dirs = {}
    /\ \E number \in 0..MaxNumber, units \in UnitsOfTime, now \in Instants :
          call = [fn |-> "to_seconds", number |-> number, units |-> units,
                  now |-> now]
    /\ result = [state |-> "called"]

\* to_seconds(number, units) returns or raises.
ToSeconds ==
    /\ pc = "to_seconds"
    /\ result.state = "called"
    /\ result' = [state |-> "done",
                  value |-> to_seconds(call.number, call.units, call.now)]
    /\ UNCHANGED <<messages, pc, index, ret, builder, events, dirs, call>>

NextToSeconds == ToSeconds

SpecToSeconds == InitToSeconds /\ [][NextToSeconds]_vars

(***************************************************************************)
(* A run that searches one chat, in an output directory that holds folders *)
(* with the names of years.                                                *)
(***************************************************************************)
InitExisting ==
    /\ messages = <<>>
    /\ pc = "fetch"
    /\ index = 0
    /\ ret = -1
    /\ curr_year = 0
    /\ curr_month = 0
    /\ curr_day = 0
    /\ curr_month_segment = 0
    /\ curr_chat = ""
    /\ day_page = NoPage
    /\ chat_div = NoChat
    /\ message_container = <<>>
    /\ segment_pages = <<>>
    /\ month_segment_list = NoNode
    /\ month_list = NoNode
    /\ year_list = NoNode
    /\ group_avatars = NoAvatars
    /\ created = [page |-> 0, chat |-> 0, list |-> 0]
    /\ events = <<>>
    /\ dirs \in (SUBSET {YearDir(y) : y \in Years}) \ {{}}
    /\ call = NoCall
    /\ result = NoResult

NextExisting ==
    \/ FetchChatMessage \/ GetMessages \/ NoMessages
    \/ Setup \/ SetupCollides \/ SetupRetry
    \/ ProcessMessage \/ ProcessMessageCollides \/ ProcessMessageRetry
    \/ Finish

SpecExisting == InitExisting /\ [][NextExisting]_vars

(***************************************************************************)
(* What a state says about the run so far.                                 *)
(***************************************************************************)
Finished == pc = "done" /\ ret = 0 /\ Len(messages) > 0

Exports == {k \in DOMAIN events : events[k].op = "export"}

\* The exports of the page object with this id.
ExportsOf(id) == {k \in Exports : events[k].page.id = id}

\* The places where the chat block with this id is attached to a page: in
\* an exported page, in a page of the open segment, or in the open page.
AttachedInExports(id) ==
    {<<k, j>> \in Exports \X (1..MaxLen) :
        j <= Len(events[k].page.container) /\ events[k].page.container[j].id = id}

AttachedInSegment(id) ==
    {<<k, j>> \in (DOMAIN segment_pages) \X (1..MaxLen) :
        j <= Len(segment_pages[k][2].container)
        /\ segment_pages[k][2].container[j].id = id}

AttachedInDayPage(id) ==
    {j \in DOMAIN day_page.container : day_page.container[j].id = id}

Buffered(id) == {k \in DOMAIN segment_pages : segment_pages[k][2].id = id}

\* C1: when main returns after a non-empty list, every page that was
\* opened has been exported exactly once and every chat block that was
\* opened is attached exactly once, to one exported page; while the loop
\* runs, an opened page is either the open page, or buffered once in the
\* open segment, or exported once, and an opened chat block is either the
\* open one or attached once.
C1_EveryNodeFlushedOnce ==
    /\ Finished =>
          /\ \A id \in 1..created.page : Cardinality(ExportsOf(id)) = 1
          /\ \A id \in 1..created.chat : Cardinality(AttachedInExports(id)) = 1
          /\ Cardinality(Exports) = created.page
    /\ pc = "loop" =>
          /\ \A id \in 1..created.page :
                Cardinality(ExportsOf(id)) + Cardinality(Buffered(id))
                    + (IF day_page.id = id THEN 1 ELSE 0) = 1
          /\ \A id \in 1..created.chat :
                Cardinality(AttachedInExports(id))
                    + Cardinality(AttachedInSegment(id))
                    + Cardinality(AttachedInDayPage(id))
                    + (IF chat_div.id = id THEN 1 ELSE 0) = 1

\* C1 witness: a finished run that opened three pages and three chat
\* blocks and closed a segment before the end of the list.
C1_Witness ==
    /\ Finished
    /\ created.page = 3
    /\ created.chat = 3
    /\ \E k \in Exports : \E j \in DOMAIN events :
          j > k /\ events[j].op = "message"

(***************************************************************************)
(* Dates, segments and page contents, for the statements below.            *)
(***************************************************************************)
Range(seq) == {seq[k] : k \in DOMAIN seq}

MessageDate(j) == <<messages[j].year, messages[j].month, messages[j].day>>

MessageSegment(j) ==
    <<messages[j].year, messages[j].month,
      calculate_month_segment(messages[j].day)>>

MessagePath(j) ==
    DayPagePath(messages[j].year, messages[j].month, messages[j].day)

\* The (year, month, segment) of the date a page was opened for.
PageSegment(page) ==
    <<page.date[3], page.date[1], calculate_month_segment(page.date[2])>>

\* The messages rendered into a page, by position in the list.
PageMessages(page) ==
    UNION {Range(page.container[c].messages) : c \in DOMAIN page.container}

\* The number of messages the loop has processed.
Processed == IF pc \in {"fetch", "start", "setup_prompt"} THEN 0 ELSE index - 1

\* C2: the builder makes exactly one page per calendar date that has a
\* message, and two messages share a page only if their year, month and
\* day are the same.
C2_OnePagePerDate ==
    Finished =>
        /\ created.page = Cardinality({MessageDate(j) : j \in DOMAIN messages})
        /\ \A k \in Exports : \A a, b \in PageMessages(events[k].page) :
              MessageDate(a) = MessageDate(b)

\* C3: after each message is processed the current month is that
\* message's month, and the directory of that month has been created.
C3_MonthFollowsMessage ==
    Processed > 0 =>
        /\ curr_month = messages[Processed].month
        /\ \E k \in DOMAIN events :
              /\ events[k].op = "mkdir"
              /\ events[k].path = MonthDir(curr_year, messages[Processed].month)

\* C4: after each message is processed the current year is that message's
\* year, and the directory of that year has been created.
C4_YearFollowsMessage ==
    Processed > 0 =>
        /\ curr_year = messages[Processed].year
        /\ \E k \in DOMAIN events :
              /\ events[k].op = "mkdir"
              /\ events[k].path = YearDir(messages[Processed].year)

\* C5: every day page is exported to the path made of the year, month and
\* day of every message it contains.
C5_PathOfSendDate ==
    \A k \in Exports : \A j \in PageMessages(events[k].page) :
        events[k].path = MessagePath(j)

\* C6: an exported page has one tab per page of its own (year, month,
\* segment) and no tab for a day of another segment, month or year.
C6_TabsOfOwnSegment ==
    Finished =>
        \A k \in Exports :
            LET page == events[k].page
                same == {q \in Exports :
                            PageSegment(events[q].page) = PageSegment(page)}
            IN /\ Len(page.tabs) = Cardinality(same)
               /\ \A t \in DOMAIN page.tabs : \E q \in same :
                     page.tabs[t].href =
                        DayFile(events[q].page.date[1], events[q].page.date[2])

\* The events a step adds.
Added == SubSeq(events', Len(events) + 1, Len(events'))

RenderedBefore(j, k) == \E p \in 1..(k - 1) : events[p] = Rendered(j)

\* C7 (states): when a page is exported, no message that is rendered later
\* lies in the (year, month, segment) of the date the page was opened for,
\* nor in that of any message the page contains, nor in that of the path
\* the page is written to; and a page that is still open or buffered has no
\* tabs.
C7_SegmentClosedAtExport ==
    /\ \A k \in Exports : \A j \in DOMAIN messages :
          ~RenderedBefore(j, k) =>
              /\ MessageSegment(j) # PageSegment(events[k].page)
              /\ \A i \in PageMessages(events[k].page) :
                    MessageSegment(j) # MessageSegment(i)
              /\ \A d \in 1..31 :
                    calculate_month_segment(d)
                        = calculate_month_segment(messages[j].day)
                    => events[k].path
                        # DayPagePath(messages[j].year, messages[j].month, d)
    /\ pc = "loop" =>
          /\ day_page.tabs = <<>>
          /\ \A k \in DOMAIN segment_pages : segment_pages[k][2].tabs = <<>>

\* C7 (steps): a step that exports a day page exports the whole buffer of
\* the open segment and the open page, each once and in order, before it
\* renders a message, every page with one tab per page of the buffer, and
\* leaves the buffer empty unless it is the finish.
C7_ExportedTogether ==
    (\E k \in DOMAIN Added : Added[k].op = "export") =>
        /\ {k \in DOMAIN Added : Added[k].op = "export"}
              = 1..(Len(segment_pages) + 1)
        /\ \A k \in 1..Len(segment_pages) :
              /\ Added[k].page.id = segment_pages[k][2].id
              /\ Len(Added[k].page.tabs) = Len(segment_pages) + 1
        /\ Added[Len(segment_pages) + 1].page.id = day_page.id
        /\ Len(Added[Len(segment_pages) + 1].page.tabs) = Len(segment_pages) + 1
        /\ pc' = "done" \/ segment_pages' = <<>>

\* C7: navigation is two-phase: no day page is exported while its segment
\* is open, and the pages buffered for a segment are stamped and exported
\* in one closing step.
C7_TwoPhaseNavigation ==
    []C7_SegmentClosedAtExport /\ [][C7_ExportedTogether]_vars

\* C7 witness: two pages were buffered, exported one after the other, and
\* a message of another segment was rendered afterwards.
C7_Witness ==
    \E k \in Exports :
        /\ k + 1 \in Exports
        /\ Len(events[k].page.tabs) = 2
        /\ \E j \in DOMAIN events : j > k + 1 /\ events[j].op = "message"

(***************************************************************************)
(* The entries of the cover page, by position in the year list.            *)
(***************************************************************************)
CoverYearEntries ==
    {k \in DOMAIN year_list.children : year_list.children[k].tag = "li"}

CoverMonthLists ==
    {k \in DOMAIN year_list.children : year_list.children[k].tag = "ul"}

CoverMonthEntries ==
    UNION {{<<k, j>> : j \in {j \in DOMAIN year_list.children[k].children :
                        year_list.children[k].children[j].tag = "li"}} :
           k \in CoverMonthLists}

CoverSegmentLists ==
    UNION {{<<k, j>> : j \in {j \in DOMAIN year_list.children[k].children :
                        year_list.children[k].children[j].tag = "ul"}} :
           k \in CoverMonthLists}

SegmentListAt(kj) == year_list.children[kj[1]].children[kj[2]]

CoverSegmentEntries ==
    UNION {{<<kj[1], kj[2], i>> : i \in {i \in DOMAIN SegmentListAt(kj).children :
                        SegmentListAt(kj).children[i].tag = "a"}} :
           kj \in CoverSegmentLists}

SegmentEntryAt(kji) == SegmentListAt(<<kji[1], kji[2]>>).children[kji[3]]

Covers == {k \in DOMAIN events : events[k].op = "cover"}

\* C10: when main returns, the cover page has been exported exactly once,
\* as the last event of the run, holding the year list; every list made
\* for the cover is attached exactly once, the month lists to the year
\* list and the start-date lists to month lists; every opened page was
\* exported before; and the cover is not exported before the finish.
C10_CoverLast ==
    /\ pc # "done" => Covers = {}
    /\ Finished =>
          /\ Covers = {Len(events)}
          /\ events[Len(events)].node = year_list
          /\ \A id \in 2..created.list :
                Cardinality({k \in CoverMonthLists :
                                year_list.children[k].id = id})
                + Cardinality({kj \in CoverSegmentLists :
                                SegmentListAt(kj).id = id}) = 1
          /\ \A k \in CoverMonthLists :
                year_list.children[k].class = "month-list"
          /\ \A kj \in CoverSegmentLists :
                SegmentListAt(kj).class = "start-date-list"
          /\ \A id \in 1..created.page : ExportsOf(id) # {}

\* C10 witness: a finished run that made lists for two years and two
\* months of one year.
C10_Witness ==
    /\ Finished
    /\ created.list = 6
    /\ Cardinality(CoverMonthLists) = 2
    /\ Cardinality(CoverSegmentLists) = 3

\* The first message of the list that lies in a (year, month, segment).
FirstOfSegment(seg) ==
    CHOOSE j \in DOMAIN messages :
        /\ MessageSegment(j) = seg
        /\ \A i \in 1..(j - 1) : MessageSegment(i) # seg

ExportedPaths == {events[k].path : k \in Exports}

\* C8: when main returns, the cover page has one year entry per year of
\* the list, one month entry per (year, month) and one segment entry per
\* (year, month, segment), and every segment has an entry that links to
\* the exported page of its first day.
C8_CoverMatchesStream ==
    Finished =>
        /\ Cardinality(CoverYearEntries)
              = Cardinality({messages[j].year : j \in DOMAIN messages})
        /\ Cardinality(CoverMonthEntries)
              = Cardinality({<<messages[j].year, messages[j].month>> :
                                j \in DOMAIN messages})
        /\ Cardinality(CoverSegmentEntries)
              = Cardinality({MessageSegment(j) : j \in DOMAIN messages})
        /\ \A j \in DOMAIN messages :
              \E e \in CoverSegmentEntries :
                  /\ SegmentEntryAt(e).href
                        = MessagePath(FirstOfSegment(MessageSegment(j)))
                  /\ SegmentEntryAt(e).href \in ExportedPaths

\* The last message is the only message of its (year, month).
LastIsSoleOfNewMonth ==
    /\ Len(messages) >= 2
    /\ \A j \in 1..(Len(messages) - 1) :
          <<messages[j].year, messages[j].month>>
              # <<messages[Len(messages)].year, messages[Len(messages)].month>>

\* C9: when the last message is the only one of a new month, the finish
\* exports a page holding it under that month, and the cover page has a
\* month entry and a segment entry for that month.
C9_LastMonthFlushed ==
    (Finished /\ LastIsSoleOfNewMonth) =>
        LET last == Len(messages)
        IN /\ \E k \in Exports :
                 /\ events[k].path = MessagePath(last)
                 /\ last \in PageMessages(events[k].page)
           /\ \E km \in CoverMonthEntries :
                 /\ year_list.children[km[1]].children[km[2]].text
                       = MONTH_NAMES[messages[last].month]
                 /\ \A other \in CoverMonthEntries :
                       other[1] < km[1] \/ (other[1] = km[1] /\ other[2] <= km[2])
           /\ \E e \in CoverSegmentEntries :
                 SegmentEntryAt(e).href = MessagePath(last)

(***************************************************************************)
(* C11: chat blocks.                                                       *)
(***************************************************************************)
\* Messages j and k are of the same day and of the same chat.
SameDayAndChat(j, k) ==
    MessageDate(j) = MessageDate(k) /\ messages[j].chat = messages[k].chat

\* The date a page was opened for, as (year, month, day).
PageDate(page) == <<page.date[3], page.date[1], page.date[2]>>

\* C11: in each day page the chat blocks are exactly the maximal runs of
\* consecutive messages of that day from the same chat, in stream order: a
\* block holds consecutive messages of the page's day and of its header's
\* chat, and it begins and ends where the chat or the day changes.
C11_BlocksAreMaximalRuns ==
    Finished =>
        \A k \in Exports :
            LET page == events[k].page
            IN \A c \in DOMAIN page.container :
                  LET block == page.container[c].messages
                      first == block[1]
                      last == block[Len(block)]
                  IN /\ Len(block) > 0
                     /\ block = [i \in 1..(last - first + 1) |-> first + i - 1]
                     /\ \A j \in first..last :
                           /\ MessageDate(j) = PageDate(page)
                           /\ messages[j].chat = page.container[c].header.chat
                     /\ first > 1 => ~SameDayAndChat(first - 1, first)
                     /\ last < Len(messages) => ~SameDayAndChat(last, last + 1)
                     /\ c > 1 =>
                           LET before == page.container[c - 1].messages
                           IN before[Len(before)] < first

(***************************************************************************)
(* C12: the pages buffered for the open segment.                           *)
(***************************************************************************)
\* The dates with a message inside the window of segment seg, a (year,
\* month, segment index).
DaysOfSegment(seg) ==
    {MessageDate(j) : j \in {i \in DOMAIN messages : MessageSegment(i) = seg}}

\* The most days a segment window holds: 21 to 31.
LongestSegment == 11

\* C12: the pages buffered for the open segment are at most as many as the
\* distinct days with messages inside one segment window, and so never more
\* than 11, however long the stream is.
C12_BufferWithinOneSegment ==
    (pc \in {"loop", "done"} /\ Len(messages) > 0) =>
        /\ Len(segment_pages) <= LongestSegment
        /\ \E j \in DOMAIN messages :
              Len(segment_pages) <= Cardinality(DaysOfSegment(MessageSegment(j)))

(***************************************************************************)
(* C13: the empty result.                                                  *)
(***************************************************************************)
\* The builder as it is before main sets it up.
Untouched ==
    /\ created = [page |-> 0, chat |-> 0, list |-> 0]
    /\ year_list = NoNode /\ month_list = NoNode
    /\ month_segment_list = NoNode
    /\ day_page = NoPage /\ segment_pages = <<>>
    /\ group_avatars = NoAvatars
    /\ dirs = {}

\* C13: on an empty list of messages main returns 0 after it has reported
\* that there are none, and it has created no directory, no stylesheet, no
\* day page and no cover page.
C13_EmptyResult ==
    (pc = "done" /\ Len(messages) = 0) =>
        /\ ret = 0
        /\ events = <<Printed("No messages found")>>
        /\ Untouched

C13_Witness == pc = "done" /\ Len(messages) = 0 /\ Len(events) > 0

(***************************************************************************)
(* C14: the avatar cache of create_chat_header.                            *)
(***************************************************************************)
\* The calls of the collaborator's get_chat for this chat name.
Lookups(chat) == {k \in DOMAIN events : events[k] = GetChat(chat)}

\* C14 (states): get_chat was called once for each chat name in the cache
\* and never for another one; the cache holds what the call returned, also
\* when that is no avatar; the open chat block shows that avatar.
C14_LookedUpOnce ==
    /\ \A c \in Chats :
          Cardinality(Lookups(c)) = (IF c \in DOMAIN group_avatars THEN 1 ELSE 0)
    /\ \A c \in DOMAIN group_avatars : group_avatars[c] = ImageUrl(c)
    /\ (pc \in {"loop", "done"} /\ Len(messages) > 0) =>
          /\ chat_div.header.chat \in DOMAIN group_avatars
          /\ chat_div.header.avatar = group_avatars[chat_div.header.chat]

\* C14 (steps): an entry of the cache is never changed nor removed, and a
\* header made for a chat name that is in the cache takes the stored avatar
\* without a call of get_chat.
C14_StoredForGood ==
    /\ \A c \in DOMAIN group_avatars :
          /\ c \in DOMAIN group_avatars'
          /\ group_avatars'[c] = group_avatars[c]
    /\ (created'.chat > created.chat
          /\ chat_div'.header.chat \in DOMAIN group_avatars) =>
          /\ chat_div'.header.avatar = group_avatars[chat_div'.header.chat]
          /\ \A k \in DOMAIN Added : Added[k].op # "get_chat"

\* C14: get_chat is called at most once per chat name; the first header of
\* a chat fetches and stores its avatar, the later ones use the stored one.
C14_AvatarCache == []C14_LookedUpOnce /\ [][C14_StoredForGood]_vars

\* A third chat block, again for the chat without avatar that was looked up
\* for the first one.
C14_Witness ==
    /\ created.chat >= 3
    /\ chat_div.header.chat = "Alice"
    /\ messages[1].chat = "Alice"
    /\ ImageUrl("Alice") = ""
    /\ Cardinality(Lookups("Alice")) = 1

(***************************************************************************)
(* C15: a directory that exists already.                                   *)
(***************************************************************************)
\* The step ends at the input() of the handler inside the loop.
CollidesInLoop == pc = "loop" /\ pc' = "loop_prompt"

\* C15: when the creation of a directory collides with an existing path,
\* the collision is reported and the run waits for the user, and up to then
\* the iteration has advanced nothing of the builder: the current year,
\* month and day, the open page and chat block, the buffered pages and the
\* lists of the cover page are as they were, and nothing was exported.
C15_CollisionAdvancesNothing ==
    [][CollidesInLoop =>
          /\ UNCHANGED builder
          /\ Added = <<MkdirFailed(YearDir(messages[index].year)),
                       Asked(YearDir(messages[index].year))>>]_vars

(***************************************************************************)
(* C16, C17, C18: the helpers of the calendar.                             *)
(***************************************************************************)
\* The range of days the claim gives the day of the call: its number, its
\* first and its last day.
RangeOfDay ==
    IF call.day \in 1..10 THEN <<1, 1, 10>>
    ELSE IF call.day \in 11..20 THEN <<2, 11, 20>>
    ELSE <<3, 21, DaysInMonth(call.month, call.year)>>

\* C16: calculate_month_segment splits the days 1..end of month into the
\* ranges 1-10, 11-20 and 21-end, and for every valid date the day lies
\* between the days of month_segment_start and month_segment_end, which are
\* dates of the same month and year and lie in the segment of the day.
C16_SegmentHoldsDay ==
    (pc = "calendar" /\ result.segment # 0 /\ result.start # <<>>
        /\ result.end # <<>>) =>
        /\ result.segment = RangeOfDay[1]
        /\ result.start[1] = call.month /\ result.start[3] = call.year
        /\ result.end[1] = call.month /\ result.end[3] = call.year
        /\ result.start[2] <= call.day /\ call.day <= result.end[2]
        /\ result.start[2] >= RangeOfDay[2] /\ result.end[2] <= RangeOfDay[3]

\* The three helpers have returned for the 10th of a month.
C16_Witness ==
    /\ pc = "calendar" /\ call.day = 10
    /\ result.segment = 1
    /\ result.start = <<call.month, 1, call.year>>
    /\ result.end = <<call.month, 10, call.year>>

\* C17: for a day from the 21st on month_segment_end returns the last day
\* of the month by the calendar: 30 for April, June, September and
\* November, 31 for the others but February, and for February 29 in leap
\* years (2024, 2000) and 28 else (2023, 1900).
C17_EndIsLastDayOfMonth ==
    (pc = "calendar" /\ result.end # <<>> /\ call.day >= 21) =>
        /\ result.end = <<call.month, DaysInMonth(call.month, call.year), call.year>>
        /\ result.end[2] = (IF call.month \in {4, 6, 9, 11} THEN 30
                            ELSE IF call.month # 2 THEN 31
                            ELSE IF call.year \in {2000, 2024} THEN 29 ELSE 28)

\* month_segment_end has returned for a day late in February 1900.
C17_Witness ==
    /\ pc = "calendar"
    /\ call.month = 2 /\ call.year = 1900 /\ call.day >= 21
    /\ result.end = <<2, 28, 1900>>

\* C18: day_suffix returns 'st' for 1, 21 and 31, 'nd' for 2 and 22, 'rd'
\* for 3 and 23, and 'th' for every other day of 1..31, also 11, 12, 13.
C18_SuffixOfDay ==
    (pc = "calendar" /\ result.suffix # "") =>
        result.suffix = (IF call.day \in {1, 21, 31} THEN "st"
                         ELSE IF call.day \in {2, 22} THEN "nd"
                         ELSE IF call.day \in {3, 23} THEN "rd"
                         ELSE "th")

\* day_suffix has returned for the 12th.
C18_Witness == pc = "calendar" /\ call.day = 12 /\ result.suffix = "th"

(***************************************************************************)
(* C19: the validation of last_used.                                       *)
(***************************************************************************)
\* A number as the claim means it: digits, a sign before them or not.
Numeric(string) ==
    /\ Len(string) > 0
    /\ \A k \in DOMAIN string :
          \/ \E v \in 0..9 : string[k] = ToString(v)
          \/ k = 1 /\ string[k] = "-" /\ Len(string) > 1

\* The units of a duration.
Units == {<<"m", "i", "n">>, <<"h">>, <<"d">>, <<"w">>, <<"m">>, <<"y">>}

Slashes(string) == Cardinality({k \in DOMAIN string : string[k] = "/"})

\* The part before the k-th slash (k = 1, 2) or after the second one (k = 3)
\* of a string with two slashes.
DatePart(string, k) ==
    LET at == {j \in DOMAIN string : string[j] = "/"}
        first == CHOOSE j \in at : \A i \in at : j <= i
        second == CHOOSE j \in at : \A i \in at : i <= j
    IN IF k = 1 THEN SubSeq(string, 1, first - 1)
       ELSE IF k = 2 THEN SubSeq(string, first + 1, second - 1)
       ELSE SubSeq(string, second + 1, Len(string))

\* last_used is malformed: it is not empty and has neither one nor three
\* parts between slashes; or it has one, which is not a number followed by
\* a unit; or it has three, not all of them numbers.
Malformed(string) ==
    /\ string # <<>>
    /\ \/ Slashes(string) \notin {0, 2}
       \/ /\ Slashes(string) = 0
          /\ \A unit \in Units :
                \/ Len(string) <= Len(unit)
                \/ SubSeq(string, Len(string) - Len(unit) + 1, Len(string)) # unit
                \/ ~Numeric(SubSeq(string, 1, Len(string) - Len(unit)))
       \/ /\ Slashes(string) = 2
          /\ \E k \in 1..3 : ~Numeric(DatePart(string, k))

\* C19: get_chats raises the validation error for a malformed last_used,
\* and it has called the API for nothing by then.
C19_MalformedRaisesFirst ==
    (pc = "get_chats" /\ result.state # "called"
        /\ Malformed(call.last_used)) =>
        /\ result = [state |-> "raised", error |-> "GroupMeException"]
        /\ events = <<>>

\* get_chats has raised for a duration with a unit that is not one.
C19_Witness ==
    /\ pc = "get_chats"
    /\ call.last_used = <<"1", "2", "x">>
    /\ result.state = "raised"

(***************************************************************************)
(* C20: the finish and an ordinary change of segment.                      *)
(***************************************************************************)
IsExport(event) == event.op = "export"

\* The day pages the step exports, with their paths, in order.
ExportsAdded == SelectSeq(Added, IsExport)

\* The open segment with the open chat block and the open page ended.
OpenSegment ==
    add_day_page(segment_pages, curr_day,
                 end_chat(day_page, chat_div, message_container))

\* The message of this iteration follows the stream before it as one more
\* message in another segment of the month of its last message.
ExtraInOtherSegment ==
    /\ pc = "loop" /\ pc' = "loop"
    /\ index > 1
    /\ messages[index].year = messages[index - 1].year
    /\ messages[index].month = messages[index - 1].month
    /\ calculate_month_segment(messages[index].day)
          # calculate_month_segment(messages[index - 1].day)

\* C20: the finish writes for the last open segment what an ordinary change
\* of segment writes for it.  The stream before an iteration is a stream of
\* its own, and the state before the iteration is the state at its end: the
\* iteration for one more message in another segment of the same month
\* exports the pages (paths, tabs, selected tab, content) the finish
\* exports from that state, and the finish exports what the change of
\* segment exports from its state.
C20_FinishAsSegmentChange ==
    [][/\ ExtraInOtherSegment =>
             ExportsAdded = finish_segment_pages(OpenSegment, curr_year, curr_month)
       /\ (pc = "loop" /\ pc' = "done") =>
             ExportsAdded = process_segment_pages(OpenSegment, curr_year, curr_month)]_vars

\* main has returned for a stream of one month: a change of segment has
\* exported the pages of two days, and the finish the page of the last.
C20_Witness ==
    /\ Finished
    /\ \A j \in DOMAIN messages : MessageDate(j)[1] = MessageDate(1)[1]
                                  /\ MessageDate(j)[2] = MessageDate(1)[2]
    /\ Len(segment_pages) = 1
    /\ Cardinality(Exports) = 3
    /\ Len(events[Len(events) - 1].page.tabs) = 1
    /\ \E k \in Exports : Len(events[k].page.tabs) = 2

(***************************************************************************)
(* C21: the paths of the exported day pages.                               *)
(***************************************************************************)
\* C21: in a run no path is exported twice: two exports of day pages never
\* go to the same path, so no exported page is overwritten by a later one.
C21_NoPathExportedTwice ==
    \A j, k \in Exports : events[j].path = events[k].path => j = k

(***************************************************************************)
(* C22: the directories of the exported day pages.                         *)
(***************************************************************************)
\* The os.mkdir calls that returned.
Mkdirs == {k \in DOMAIN events : events[k].op = "mkdir"}

\* The names of year folders, of month folders and of files of day pages.
YearFolders == {ToString(y) : y \in Years}

MonthFolders == {zfill(m) \o "-" \o MONTH_NAMES[m] : m \in Months}

DayFiles == {DayFile(m, d) : m \in Months, d \in Days}

\* The pairs of a month folder in a year folder and that year folder, and
\* of a file of a day page in such a month folder and that month folder.
FoldersInside ==
    {<<y \o "/" \o m, y>> : y \in YearFolders, m \in MonthFolders}

FilesInside ==
    {<<f[1] \o "/" \o d, f[1]>> : f \in FoldersInside, d \in DayFiles}

\* path names a file of a day page directly inside dir.
DayPageIn(path, dir) == <<path, dir>> \in FilesInside

\* path names a month folder directly inside dir.
MonthFolderIn(path, dir) == <<path, dir>> \in FoldersInside

\* The folders made for months, in the order of their making.
MonthMkdirs == {k \in Mkdirs : \E j \in Mkdirs : MonthFolderIn(events[k].path, events[j].path)}

\* C22 (states): every day page was exported into a directory os.mkdir had
\* made before, inside a year directory made before that; no directory is
\* made twice, and none is in the way of the next iteration; and while the
\* loop runs the directory of the current year and month is the month
\* directory made last.
C22_DirectoriesMadeBefore ==
    /\ \A k \in Exports :
          \E j \in Mkdirs :
             /\ j < k
             /\ DayPageIn(events[k].path, events[j].path)
             /\ \E i \in Mkdirs : i < j /\ MonthFolderIn(events[j].path, events[i].path)
    /\ \A j, k \in Mkdirs : events[j].path = events[k].path => j = k
    /\ (pc = "loop" /\ index <= Len(messages)) => ENABLED ProcessMessage
    /\ pc = "loop" =>
          \E k \in MonthMkdirs :
             /\ events[k].path = MonthDir(curr_year, curr_month)
             /\ \A j \in MonthMkdirs : j <= k

\* C22 (steps): the current year and month change only in an iteration
\* that closes the open segment, and the pages of that segment go to the
\* directory of the year and month that were current while it was open.
C22_SegmentKeepsDirectory ==
    /\ (pc = "loop" /\ (curr_year' # curr_year \/ curr_month' # curr_month)) =>
          /\ segment_pages' = <<>>
          /\ Len(ExportsAdded) = Len(segment_pages) + 1
    /\ \A k \in DOMAIN ExportsAdded :
          DayPageIn(ExportsAdded[k].path, MonthDir(curr_year, curr_month))

\* C22: every day page is exported into a directory made earlier in the
\* run, the one made when its year and month became current, and no month
\* directory is made twice.
C22_ExportIntoOwnDirectory ==
    []C22_DirectoriesMadeBefore /\ [][C22_SegmentKeepsDirectory]_vars

\* main has returned after it made the directories of two years and
\* exported a day page into a month directory of each.
C22_Witness ==
    /\ Finished
    /\ Cardinality(MonthMkdirs) >= 2
    /\ Cardinality(Mkdirs \ MonthMkdirs) = 2
    /\ \A j \in MonthMkdirs :
          \E k \in Exports : DayPageIn(events[k].path, events[j].path)

(***************************************************************************)
(* C23: no empty chat block and no empty page.                             *)
(***************************************************************************)
\* The pages of the open segment's list and the exported ones.
ListedPages ==
    {segment_pages[k][2] : k \in DOMAIN segment_pages}
        \cup {events[k].page : k \in Exports}

\* The pages a chat block may be attached to.
PagesWithBlocks ==
    ListedPages \cup (IF pc \in {"loop", "loop_prompt", "done"}
                      THEN {day_page} ELSE {})

\* C23 (states): every chat block attached to a page holds a message, and
\* every page of the open segment's list, and every exported one, holds a
\* chat block.
C23_NothingEmpty ==
    /\ \A page \in PagesWithBlocks : \A c \in DOMAIN page.container :
          Len(page.container[c].messages) >= 1
    /\ \A page \in ListedPages : Len(page.container) >= 1

\* C23 (steps): the first iteration puts the first message into the chat
\* block that was opened before the loop, and closes and opens nothing.
C23_FirstMessageStays ==
    (pc = "loop" /\ index = 1 /\ index' = 2) =>
        /\ message_container' = <<1>>
        /\ Added = <<Rendered(1)>>
        /\ UNCHANGED <<chat_div, day_page, segment_pages, created,
                       month_segment_list, month_list, year_list,
                       curr_year, curr_month, curr_day, curr_month_segment,
                       curr_chat, group_avatars, dirs>>

\* C23: no attached chat block and no listed page is empty, and the first
\* message trips no boundary.
C23_NoEmptyBlockOrPage == []C23_NothingEmpty /\ [][C23_FirstMessageStays]_vars

\* A chat block is attached to the open page, another one is open, and a
\* page is in the list of the open segment.
C23_Witness ==
    /\ pc = "loop"
    /\ Len(day_page.container) = 1
    /\ day_page.container[1].messages = <<2>>
    /\ message_container = <<3>>
    /\ Len(segment_pages) = 1

(***************************************************************************)
(* C24: what get_chats fetches of the groups and of the direct messages.   *)
(***************************************************************************)
\* The items of all the pages of a listing, in the order of the API.
RECURSIVE Listed(_)
Listed(pages) ==
    IF pages = <<>> THEN <<>> ELSE pages[1] \o Listed(Tail(pages))

Earlier(items, cutoff) == {k \in DOMAIN items : items[k].created_at < cutoff}

\* The items before the first one whose last message is earlier than the
\* cutoff.
BeforeFirstEarlier(items, cutoff) ==
    IF Earlier(items, cutoff) = {} THEN items
    ELSE SubSeq(items, 1,
                (CHOOSE k \in Earlier(items, cutoff) :
                    \A other \in Earlier(items, cutoff) : k <= other) - 1)

\* What the claim has get_chats return of a listing.
Expected(pages) ==
    IF call.last_used = <<>> THEN Listed(pages)
    ELSE BeforeFirstEarlier(Listed(pages), result.cutoff.value)

IsGroup(chat) == chat.type = "Group"

IsDirectMessage(chat) == chat.type = "DirectMessage"

\* The pages of the url that have been requested.
RequestedPages(url) ==
    {events[e].index : e \in {e \in DOMAIN events :
                                 events[e].op = "request" /\ events[e].path = url}}

\* The page loop over a listing has not gone on after an empty page or after
\* an item earlier than the cutoff: the page before a requested page has
\* items, and nothing on the pages before that one is earlier than the
\* cutoff.
LoopEnded(url, pages) ==
    \A page \in RequestedPages(url) :
        page > 1 =>
            /\ Response(pages, page - 1) # <<>>
            /\ call.last_used # <<>> =>
                   Earlier(Listed(SubSeq(pages, 1, page - 2)),
                           result.cutoff.value) = {}

\* C24: the groups and the direct messages that get_chats returns are the
\* listed ones before the first one whose last message is earlier than the
\* cutoff, none of them is earlier than the cutoff, all the listed ones are
\* returned for an empty last_used, and a page loop ends with the first empty
\* page or with the first item earlier than the cutoff.
C24_FetchedUpToCutoff ==
    (pc = "get_chats" /\ "chats" \in DOMAIN call) =>
        /\ result.state \in {"chats", "returned"} =>
              result.groups = GroupsOf(Expected(call.groups))
        /\ result.state = "returned" =>
              /\ result.direct_messages = DirectMessagesOf(Expected(call.chats))
              /\ SelectSeq(result.chats, IsGroup) =
                    GroupsOf(Expected(call.groups))
              /\ SelectSeq(result.chats, IsDirectMessage) =
                    DirectMessagesOf(Expected(call.chats))
              /\ call.last_used # <<>> =>
                    \A k \in DOMAIN result.chats :
                       result.chats[k].last_used >= result.cutoff.value
              /\ call.last_used = <<>> =>
                    Len(result.chats) =
                       Len(Listed(call.groups)) + Len(Listed(call.chats))
        /\ result.state \in {"groups", "chats", "returned"} =>
              /\ LoopEnded("/groups", call.groups)
              /\ LoopEnded("/chats", call.chats)
              /\ result.state = "returned" =>
                    /\ RequestedPages("/groups") # {}
                    /\ RequestedPages("/chats") # {}

\* get_chats has returned for the last day: the groups are on two pages, and
\* all but the last are returned, the last returned one sent at the cutoff
\* and the one after it earlier; the direct message earlier than the cutoff
\* hides the recent one listed after it.
C24_Witness ==
    /\ pc = "get_chats"
    /\ result.state = "returned"
    /\ call.last_used = <<"1", "d">>
    /\ Len(call.groups) = 2
    /\ Len(Listed(call.groups)) = MaxItems
    /\ Len(result.groups) = MaxItems - 1
    /\ result.groups[Len(result.groups)].last_used = result.cutoff.value
    /\ Len(Listed(call.chats)) >= 2
    /\ Listed(call.chats)[2].created_at > result.cutoff.value
    /\ result.direct_messages = <<>>

(***************************************************************************)
(* C25: the merge of the groups and the direct messages.                   *)
(***************************************************************************)
\* The list is ordered by non-increasing last_used.
MostRecentFirst(list) ==
    \A j, k \in DOMAIN list : j < k => list[j].last_used >= list[k].last_used

Occurrences(chat, list) == Cardinality({k \in DOMAIN list : list[k] = chat})

\* C25: the returned list holds every fetched group and every fetched direct
\* message once and nothing else, and it is ordered by non-increasing
\* last_used whenever the fetched groups and the fetched direct messages
\* each are.
C25_MergedOnceAndOrdered ==
    (pc = "get_chats" /\ result.state = "returned") =>
        /\ \A k \in DOMAIN result.groups :
              Occurrences(result.groups[k], result.chats) = 1
        /\ \A k \in DOMAIN result.direct_messages :
              Occurrences(result.direct_messages[k], result.chats) = 1
        /\ Len(result.chats) =
              Len(result.groups) + Len(result.direct_messages)
        /\ (MostRecentFirst(result.groups)
               /\ MostRecentFirst(result.direct_messages)) =>
              MostRecentFirst(result.chats)

\* get_chats has returned a list that starts with a direct message, goes on
\* with a group, and holds all the chats of the account, of which the groups
\* and the direct messages came ordered and the last chat is older than the
\* first.
C25_Witness ==
    /\ pc = "get_chats"
    /\ result.state = "returned"
    /\ Len(result.groups) = MaxItems
    /\ Len(result.direct_messages) = MaxItems
    /\ MostRecentFirst(result.groups)
    /\ MostRecentFirst(result.direct_messages)
    /\ result.chats[1].type = "DirectMessage"
    /\ result.chats[2].type = "Group"
    /\ result.chats[Len(result.chats)].type = "DirectMessage"
    /\ result.chats[1].last_used > result.chats[Len(result.chats)].last_used

(***************************************************************************)
(* C26: a number of months in seconds.                                     *)
(***************************************************************************)
\* A year is borrowed when the months to subtract reach the current month.
Borrowed(number, now) == (number % 12) >= now.month

\* The month and the year that many months before the instant.
MonthBefore(number, now) ==
    now.month - (number % 12) + (IF Borrowed(number, now) THEN 12 ELSE 0)

YearBefore(number, now) ==
    now.year - (number \div 12) - (IF Borrowed(number, now) THEN 1 ELSE 0)

\* C26: for a number of months to_seconds returns the time elapsed since
\* the same day and time of day that many months earlier, the month of that
\* date being one of 1..12 with a year borrowed where needed; it does not
\* raise.
C26_MonthsBorrowYear ==
    (pc = "to_seconds" /\ result.state = "done" /\ call.units = <<"m">>) =>
        /\ MonthBefore(call.number, call.now) \in 1..12
        /\ result.value =
              Returns(time(call.now)
                 - timestamp(YearBefore(call.number, call.now),
                             MonthBefore(call.number, call.now),
                             call.now.day, call.now.hour, call.now.minute))
====
